---- MODULE Spec2Model ----
(***************************************************************************)
(* Bank-statement CSV import of spliit: the parser and the createBatch      *)
(* procedure of src/lib/csv-import.ts, and the import dialog of            *)
(* src/app/groups/[groupId]/expenses/import-csv-button.tsx.                *)
(*                                                                         *)
(* Five specifications share the variables, each leaving the others' at    *)
(* rest: Spec (a file is detected, parsed, converted), SpecSplit (one call *)
(* of splitCsvLine), SpecDate (one dated row), SpecDialog (the dialog) and *)
(* SpecBatch (one call of the createBatch procedure).                      *)
(*                                                                         *)
(* A text is a sequence of characters.  The characters the code tests      *)
(* one by one (comma, double quote, space, CR, LF) are single elements;    *)
(* every other element is a run of ordinary characters (a word such as     *)
(* "Coffee Shop" or "-42.50") that holds none of those five characters at  *)
(* its ends and no comma, quote or line break inside.  The JavaScript      *)
(* built-ins that look inside a run (toLowerCase, includes, the date       *)
(* regular expression, parseFloat) are given by their value on each run    *)
(* of the vocabulary.                                                      *)
(*                                                                         *)
(* A decimal number is the integer count of its ten-thousandths            *)
(* (-42.50 is -425000).  The amounts of the vocabulary are multiples of    *)
(* 1/16, which a double holds exactly, as it holds their products by 100.  *)
(***************************************************************************)
EXTENDS Integers, Sequences, FiniteSets, TLC

VARIABLES
    rows,      \* the rows of the exported file, before they are joined
    eol,       \* the line ending the file was written with
    text,      \* the raw text handed to detectCsvFormat and parseCsv
    format,    \* the optional format argument of parseCsv
    detected,  \* what detectCsvFormat(text) returned
    result,    \* what parseCsv(text, format) returned
    call,      \* the arguments of the last transactionToExpenseValues call
    expense,   \* what that call returned
    pc         \* "ready", "detected", "parsed", "converted"

parserVars == <<rows, eol, text, format, detected, result, call, expense, pc>>

\* One call of splitCsvLine on a line given character by character.
VARIABLES
    csvLine,    \* the line handed to splitCsvLine
    csvFields,  \* what splitCsvLine(csvLine) returned
    splitPc     \* "idle", "ready", "split"

splitVars == <<csvLine, csvFields, splitPc>>

\* One statement row whose date field is given character by character.
VARIABLES
    dateField,   \* the text of the row's date field
    dateResult,  \* what the parser returned for the header and that row
    datePc       \* "idle", "ready", "parsed"

dateVars == <<dateField, dateResult, datePc>>

\* The import dialog: src/app/groups/[groupId]/expenses/import-csv-button.tsx.
VARIABLES
    dialog,    \* the React state of ImportDialogContent
    open,      \* the open flag of ImportCsvButton
    readers,   \* the FileReaders whose onload has not run yet
    mutations  \* the createBatch mutations in flight

dialogVars == <<dialog, open, readers, mutations>>

\* One call of the createBatch procedure.
VARIABLES
    batchInput,  \* the input of the call: groupId, expenses, participantId
    database,    \* the groups, the expenses and the activities stored
    procedure    \* where the call stands, its results, what it ended with

batchVars == <<batchInput, database, procedure>>

vars == <<parserVars, splitVars, dateVars, dialogVars, batchVars>>

(***************************************************************************)
(* Bounds of the model.                                                    *)
(***************************************************************************)
MaxLines == 3

(***************************************************************************)
(* Characters.                                                             *)
(***************************************************************************)
COMMA == ","
QUOTE == "\""
SPACE == " "
CR == "\r"
LF == "\n"

\* String.prototype.trim removes white space and line terminators.
IsWhiteSpace(c) == c \in {SPACE, CR, LF, "\t"}

RECURSIVE TrimStart(_)
TrimStart(s) ==
    IF s # <<>> /\ IsWhiteSpace(Head(s)) THEN TrimStart(Tail(s)) ELSE s

RECURSIVE TrimEnd(_)
TrimEnd(s) ==
    IF s # <<>> /\ IsWhiteSpace(s[Len(s)])
    THEN TrimEnd(SubSeq(s, 1, Len(s) - 1))
    ELSE s

Trim(s) == TrimEnd(TrimStart(s))

\* The k-th smallest of the positions S.
Nth(S, k) == CHOOSE n \in S : Cardinality({m \in S : m < n}) = k - 1

\* The positions of the line feeds of t, and whether the line feed at i
\* follows a carriage return.
LineFeeds(t) == {i \in 1..Len(t) : t[i] = LF}
AfterCr(t, i) == i > 1 /\ t[i - 1] = CR

\* The split a pattern of /\r\n/ would make.
SplitLines_crlfOnly(t) ==
    LET ends == {i \in LineFeeds(t) : AfterCr(t, i)}
        n == Cardinality(ends)
    IN  [k \in 1..(n + 1) |->
            SubSeq(t, IF k = 1 THEN 1 ELSE Nth(ends, k - 1) + 1,
                      IF k = n + 1 THEN Len(t) ELSE Nth(ends, k) - 2)]

\* text.split(/\r?\n/): the text is cut at every line feed, which takes the
\* carriage return before it, if any, with it.
SplitLines(t) ==
    LET ends == LineFeeds(t)
        n == Cardinality(ends)
    IN  [k \in 1..(n + 1) |->
            SubSeq(t, IF k = 1 THEN 1 ELSE Nth(ends, k - 1) + 1,
                      IF k = n + 1 THEN Len(t)
                      ELSE IF AfterCr(t, Nth(ends, k)) THEN Nth(ends, k) - 2
                      ELSE Nth(ends, k) - 1)]

NonBlank(l) == Len(Trim(l)) > 0

\* text.split(/\r?\n/).filter((l) => l.trim().length > 0)
Lines(t) == SelectSeq(SplitLines(t), NonBlank)

(***************************************************************************)
(* splitCsvLine.  The state of its for loop is the index i (1-based here), *)
(* the fields pushed, the field under construction and the quote flag.     *)
(***************************************************************************)
\* The body of the loop without its escaped-quote branch: every quote
\* toggles the flag.
splitCsvLineStep_everyQuoteToggles(line, st) ==
    LET char == line[st.i]
    IN  IF char = QUOTE
        THEN [st EXCEPT !.inQuotes = ~@, !.i = @ + 1]
        ELSE IF char = COMMA /\ ~st.inQuotes
        THEN [st EXCEPT !.fields = Append(@, Trim(st.current)),
                        !.current = <<>>,
                        !.i = @ + 1]
        ELSE [st EXCEPT !.current = Append(@, char), !.i = @ + 1]

\* One pass of the body of the loop at character i, its i++ included.
splitCsvLineStep(line, st) ==
    LET char == line[st.i]
    IN  IF char = QUOTE
        THEN IF st.inQuotes /\ st.i < Len(line) /\ line[st.i + 1] = QUOTE
             THEN [st EXCEPT !.current = Append(@, QUOTE), !.i = @ + 2]
             ELSE [st EXCEPT !.inQuotes = ~@, !.i = @ + 1]
        ELSE IF char = COMMA /\ ~st.inQuotes
        THEN [st EXCEPT !.fields = Append(@, Trim(st.current)),
                        !.current = <<>>,
                        !.i = @ + 1]
        ELSE [st EXCEPT !.current = Append(@, char), !.i = @ + 1]

\* The loop: passes from the state st while i is inside the line, n passes
\* at most.  The passes are made as two halves, one after the other, so that
\* the evaluation nests to the logarithm of n, not to n.
RECURSIVE splitCsvLineLoop(_, _, _)
splitCsvLineLoop(line, st, n) ==
    IF st.i > Len(line) \/ n = 0 THEN st
    ELSE IF n = 1 THEN splitCsvLineStep(line, st)
    ELSE splitCsvLineLoop(line, splitCsvLineLoop(line, st, n \div 2),
                          n - (n \div 2))

splitCsvLine(line) ==
    LET last == splitCsvLineLoop(line,
                    [i |-> 1, fields |-> <<>>, current |-> <<>>,
                     inQuotes |-> FALSE],
                    Len(line))
    IN  Append(last.fields, Trim(last.current))

\* fields[k] of the source, whose arrays count from 0.
Field(fields, k) == fields[k + 1]

(***************************************************************************)
(* parseDate.                                                              *)
(***************************************************************************)
NoMatch == <<>>

\* A date field may also be given character by character: digits and "/".
SLASH == "/"
Digits == <<"0", "1", "2", "3", "4", "5", "6", "7", "8", "9">>

IsDigit(c) == \E v \in 1..10 : Digits[v] = c

\* parseInt of a run of digits.
RECURSIVE parseInt(_)
parseInt(ds) ==
    IF ds = <<>> THEN 0
    ELSE LET last == ds[Len(ds)]
             v == CHOOSE v \in 0..9 : Digits[v + 1] = last
         IN  10 * parseInt(SubSeq(ds, 1, Len(ds) - 1)) + v

\* /^(\d{1,2})\/(\d{1,2})\/(\d{4})$/ on a field given character by character,
\* followed by parseInt of the three groups.
DigitsMatch(dateStr) ==
    LET slashes == {n \in 1..Len(dateStr) : dateStr[n] = SLASH}
    IN  IF Cardinality(slashes) # 2 THEN NoMatch
        ELSE LET p == CHOOSE n \in slashes : \A m \in slashes : n <= m
                 q == CHOOSE n \in slashes : \A m \in slashes : m <= n
                 month == SubSeq(dateStr, 1, p - 1)
                 day == SubSeq(dateStr, p + 1, q - 1)
                 year == SubSeq(dateStr, q + 1, Len(dateStr))
             IN  IF /\ Len(month) \in 1..2
                    /\ Len(day) \in 1..2
                    /\ Len(year) = 4
                    /\ \A n \in (1..Len(dateStr)) \ slashes : IsDigit(dateStr[n])
                 THEN <<parseInt(month), parseInt(day), parseInt(year)>>
                 ELSE NoMatch

\* dateStr.match(/^(\d{1,2})\/(\d{1,2})\/(\d{4})$/) followed by parseInt of
\* the three groups: <<month, day, year>>, or NoMatch.
DateMatch(dateStr) ==
    IF Len(dateStr) # 1 THEN DigitsMatch(dateStr)
    ELSE CASE dateStr[1] = "01/15/2024" -> <<1, 15, 2024>>
           [] dateStr[1] = "1/5/2024"   -> <<1, 5, 2024>>
           [] dateStr[1] = "12/31/2023" -> <<12, 31, 2023>>
           [] dateStr[1] = "02/30/2024" -> <<2, 30, 2024>>
           [] dateStr[1] = "13/01/2024" -> <<13, 1, 2024>>
           [] dateStr[1] = "00/00/2024" -> <<0, 0, 2024>>
           [] OTHER -> NoMatch

IsLeapYear(y) == (y % 4 = 0 /\ y % 100 # 0) \/ y % 400 = 0

\* Days of month index m (0 = January) of year y.
DaysInMonth(y, m) ==
    IF m = 1 THEN (IF IsLeapYear(y) THEN 29 ELSE 28)
    ELSE IF m \in {3, 5, 8, 10} THEN 30 ELSE 31

\* new Date(...) carries a day outside the month into the neighbouring months.
RECURSIVE CarryDay(_, _, _)
CarryDay(y, m, d) ==
    IF d < 1
    THEN LET py == IF m = 0 THEN y - 1 ELSE y
             pm == IF m = 0 THEN 11 ELSE m - 1
         IN  CarryDay(py, pm, d + DaysInMonth(py, pm))
    ELSE IF d > DaysInMonth(y, m)
    THEN CarryDay(IF m = 11 THEN y + 1 ELSE y,
                  IF m = 11 THEN 0 ELSE m + 1,
                  d - DaysInMonth(y, m))
    ELSE [year |-> y, month |-> m + 1, day |-> d]

\* new Date(year, monthIndex, day, 12, 0, 0): the local calendar day it names.
\* A year of 0..99 means 1900 + year; a month index outside 0..11 carries
\* into the year.
NewDate(year, monthIndex, day) ==
    LET y0 == IF year \in 0..99 THEN 1900 + year ELSE year
        mm == y0 * 12 + monthIndex
    IN  CarryDay(mm \div 12, mm % 12, day)

NullDate == [year |-> 0, month |-> 0, day |-> 0]

parseDate(dateStr) ==
    LET match == DateMatch(dateStr)
    IN  IF match = NoMatch THEN NullDate
        ELSE NewDate(match[3], match[1] - 1, match[2])

(***************************************************************************)
(* parseFloat, toMinorUnits, makeTransaction.                              *)
(***************************************************************************)
NaN == [isNaN |-> TRUE, value |-> 0]
Num(v) == [isNaN |-> FALSE, value |-> v]

\* parseFloat(field): the decimal the field begins with, in ten-thousandths.
parseFloat(field) ==
    IF field = <<>> THEN NaN
    ELSE CASE field[1] = "-42.50"  -> Num(-425000)
           [] field[1] = "100.125" -> Num(1001250)
           [] field[1] = "-4.375"  -> Num(-43750)
           [] field[1] = "0.1875"  -> Num(1875)
           [] field[1] = "0.0625"  -> Num(625)
           [] field[1] = "0.00"    -> Num(0)
           [] field[1] = "12.00"   -> Num(120000)
           [] field[1] = "25.125"  -> Num(251250)
           [] field[1] = "5.00"    -> Num(50000)
           [] field[1] = "7.00"    -> Num(70000)
           [] field[1] = "957.50"  -> Num(9575000)
           [] field[1] = "1234"    -> Num(12340000)
           [] field[1] = "1"       -> Num(10000)
           [] OTHER -> NaN

Abs(x) == IF x < 0 THEN -x ELSE x

\* Math.floor in the place of Math.round.
toMinorUnits_truncate(decimal) == Abs(decimal) \div 100

\* Math.round(Math.abs(decimal) * 100): Math.round takes a half upwards.
toMinorUnits(decimal) == (Abs(decimal) + 50) \div 100

\* nanoid() is a fresh token: here the number of the transaction in its call.
makeTransaction(id, date, rawAmount, description) ==
    LET isCredit == rawAmount > 0
    IN  [id |-> id,
         date |-> date,
         amount |-> toMinorUnits(rawAmount),
         rawAmount |-> rawAmount,
         isCredit |-> isCredit,
         description |-> Trim(description),
         selected |-> ~isCredit]

(***************************************************************************)
(* Outcomes (CsvParseResult) and diagnostics.  A diagnostic is kept as its *)
(* parts: the fixed wording, the 1-indexed row (0 when the message names   *)
(* none), the column counts and the offending field text it interpolates.  *)
(***************************************************************************)
NoFormat == "none"
CsvFormat == {"wells-fargo", "chase", "bank-of-america", "capital-one"}

NoError == [message |-> "", row |-> 0, expected |-> 0, found |-> 0, text |-> <<>>]

ColumnsError(row, message, expected, found) ==
    [message |-> message, row |-> row, expected |-> expected, found |-> found,
     text |-> <<>>]

FieldError(row, message, field) ==
    [message |-> message, row |-> row, expected |-> 0, found |-> 0, text |-> field]

FileError(message) ==
    [message |-> message, row |-> 0, expected |-> 0, found |-> 0, text |-> <<>>]

Success(transactions, detectedFormat) ==
    [success |-> TRUE, transactions |-> transactions,
     detectedFormat |-> detectedFormat, error |-> NoError]

\* { success: false, error }: the failure variant has no transactions field.
Failure(error) ==
    [success |-> FALSE, transactions |-> <<>>, detectedFormat |-> NoFormat,
     error |-> error]

(***************************************************************************)
(* detectCsvFormat.                                                        *)
(***************************************************************************)
\* String.prototype.toLowerCase on one run of characters.
toLowerCase(w) ==
    CASE w = "Transaction Date" -> "transaction date"
      [] w = "Post Date"        -> "post date"
      [] w = "Posted Date"      -> "posted date"
      [] w = "Card No."         -> "card no."
      [] w = "Description"      -> "description"
      [] w = "Category"         -> "category"
      [] w = "Type"             -> "type"
      [] w = "Amount"           -> "amount"
      [] w = "Debit"            -> "debit"
      [] w = "Credit"           -> "credit"
      [] w = "Date"             -> "date"
      [] w = "Running Bal."     -> "running bal."
      [] w = "DATE"             -> "date"
      [] w = "DESCRIPTION"      -> "description"
      [] w = "AMOUNT"           -> "amount"
      [] w = "RUNNING BAL."     -> "running bal."
      [] w = "Coffee Shop"      -> "coffee shop"
      [] w = "Payroll"          -> "payroll"
      [] w = "Payment"          -> "payment"
      [] w = "Thanks"           -> "thanks"
      [] w = "Refund"           -> "refund"
      [] w = "Food"             -> "food"
      [] w = "Sale"             -> "sale"
      [] w = "Only Two"         -> "only two"
      [] w = "N/A"              -> "n/a"
      [] OTHER -> w

LowerCased(line) == [i \in 1..Len(line) |-> toLowerCase(line[i])]

\* The header keywords that occur, as written, inside one run of characters.
KeywordsIn(w) ==
    CASE w = "transaction date" -> {"transaction date", "date"}
      [] w = "post date"        -> {"post date", "date"}
      [] w = "posted date"      -> {"posted date", "date"}
      [] w = "date"             -> {"date"}
      [] w = "description"      -> {"description"}
      [] w = "category"         -> {"category"}
      [] w = "type"             -> {"type"}
      [] w = "debit"            -> {"debit"}
      [] w = "credit"           -> {"credit"}
      [] w = "running bal."     -> {"running bal"}
      [] OTHER -> {}

\* String.prototype.includes for a header keyword.
includes(line, keyword) == \E i \in 1..Len(line) : keyword \in KeywordsIn(line[i])

detectCsvFormat_capitalOneFirst(t) ==
    LET lines == Lines(t)
        firstLine == LowerCased(lines[1])
        fields == splitCsvLine(lines[1])
    IN  IF Len(lines) = 0 THEN NoFormat
        ELSE IF /\ includes(firstLine, "transaction date")
                /\ includes(firstLine, "posted date")
                /\ includes(firstLine, "debit")
                /\ includes(firstLine, "credit")
        THEN "capital-one"
        ELSE IF /\ includes(firstLine, "transaction date")
                /\ includes(firstLine, "post date")
                /\ includes(firstLine, "category")
                /\ includes(firstLine, "type")
        THEN "chase"
        ELSE IF /\ includes(firstLine, "date")
                /\ includes(firstLine, "description")
                /\ includes(firstLine, "running bal")
        THEN "bank-of-america"
        ELSE IF Len(fields) = 5 /\ Field(fields, 2) = <<"*">>
        THEN "wells-fargo"
        ELSE NoFormat

detectCsvFormat(t) ==
    LET lines == Lines(t)
        firstLine == LowerCased(lines[1])
        fields == splitCsvLine(lines[1])
    IN  IF Len(lines) = 0 THEN NoFormat
        ELSE IF /\ includes(firstLine, "transaction date")
                /\ includes(firstLine, "post date")
                /\ includes(firstLine, "category")
                /\ includes(firstLine, "type")
        THEN "chase"
        ELSE IF /\ includes(firstLine, "transaction date")
                /\ includes(firstLine, "posted date")
                /\ includes(firstLine, "debit")
                /\ includes(firstLine, "credit")
        THEN "capital-one"
        ELSE IF /\ includes(firstLine, "date")
                /\ includes(firstLine, "description")
                /\ includes(firstLine, "running bal")
        THEN "bank-of-america"
        ELSE IF Len(fields) = 5 /\ Field(fields, 2) = <<"*">>
        THEN "wells-fargo"
        ELSE NoFormat

(***************************************************************************)
(* The format-specific parsers.  Each ...From operator is the for loop     *)
(* from row index i (0-based, as in the source) with the transactions      *)
(* pushed so far.                                                          *)
(***************************************************************************)
RECURSIVE parseWellsFargoFrom(_, _, _)
parseWellsFargoFrom(lines, i, transactions) ==
    IF ~(i < Len(lines)) THEN Success(transactions, "wells-fargo")
    ELSE LET fields == splitCsvLine(lines[i + 1])
             date == parseDate(Field(fields, 0))
             rawAmount == parseFloat(Field(fields, 1))
         IN  IF Len(fields) # 5
             THEN Failure(ColumnsError(i + 1, "Expected 5 columns but found",
                                       5, Len(fields)))
             ELSE IF date = NullDate
             THEN Failure(FieldError(i + 1, "Invalid date", Field(fields, 0)))
             ELSE IF rawAmount.isNaN
             THEN Failure(FieldError(i + 1, "Invalid amount", Field(fields, 1)))
             ELSE parseWellsFargoFrom(lines, i + 1,
                      Append(transactions,
                             makeTransaction(Len(transactions) + 1, date,
                                             rawAmount.value, Field(fields, 4))))

parseWellsFargo(lines) == parseWellsFargoFrom(lines, 0, <<>>)

RECURSIVE parseChaseFrom(_, _, _)
parseChaseFrom(lines, i, transactions) ==
    IF ~(i < Len(lines)) THEN Success(transactions, "chase")
    ELSE LET fields == splitCsvLine(lines[i + 1])
             date == parseDate(Field(fields, 0))
             rawAmount == parseFloat(Field(fields, 5))
         IN  IF Len(fields) < 6
             THEN Failure(ColumnsError(i + 1, "Expected at least 6 columns but found",
                                       6, Len(fields)))
             ELSE IF date = NullDate
             THEN Failure(FieldError(i + 1, "Invalid date", Field(fields, 0)))
             ELSE IF rawAmount.isNaN
             THEN Failure(FieldError(i + 1, "Invalid amount", Field(fields, 5)))
             ELSE parseChaseFrom(lines, i + 1,
                      Append(transactions,
                             makeTransaction(Len(transactions) + 1, date,
                                             rawAmount.value, Field(fields, 2))))

parseChase(lines) == parseChaseFrom(lines, 1, <<>>)

RECURSIVE parseBankOfAmericaFrom(_, _, _)
parseBankOfAmericaFrom(lines, i, transactions) ==
    IF ~(i < Len(lines)) THEN Success(transactions, "bank-of-america")
    ELSE LET fields == splitCsvLine(lines[i + 1])
             date == parseDate(Field(fields, 0))
             rawAmount == parseFloat(Field(fields, 2))
         IN  IF Len(fields) < 3
             THEN Failure(ColumnsError(i + 1, "Expected at least 3 columns but found",
                                       3, Len(fields)))
             ELSE IF date = NullDate
             THEN Failure(FieldError(i + 1, "Invalid date", Field(fields, 0)))
             ELSE IF rawAmount.isNaN
             THEN Failure(FieldError(i + 1, "Invalid amount", Field(fields, 2)))
             ELSE parseBankOfAmericaFrom(lines, i + 1,
                      Append(transactions,
                             makeTransaction(Len(transactions) + 1, date,
                                             rawAmount.value, Field(fields, 1))))

\* The loop started at row 0.
parseBankOfAmerica_fromRow0(lines) == parseBankOfAmericaFrom(lines, 0, <<>>)

parseBankOfAmerica(lines) == parseBankOfAmericaFrom(lines, 1, <<>>)

\* Credit taking precedence over debit.
capitalOneRawAmount_creditFirst(fields) ==
    LET debit == parseFloat(Field(fields, 5))
        credit == parseFloat(Field(fields, 6))
        hasDebit == ~debit.isNaN /\ Trim(Field(fields, 5)) # <<>>
        hasCredit == ~credit.isNaN /\ Trim(Field(fields, 6)) # <<>>
    IN  IF ~hasDebit /\ ~hasCredit THEN NaN
        ELSE IF hasCredit THEN Num(Abs(credit.value))
        ELSE Num(-Abs(debit.value))

\* Lines 277-291 of parseCapitalOne: the signed amount of one row, NaN when
\* the row has neither a debit nor a credit.
capitalOneRawAmount(fields) ==
    LET debit == parseFloat(Field(fields, 5))
        credit == parseFloat(Field(fields, 6))
        hasDebit == ~debit.isNaN /\ Trim(Field(fields, 5)) # <<>>
        hasCredit == ~credit.isNaN /\ Trim(Field(fields, 6)) # <<>>
    IN  IF ~hasDebit /\ ~hasCredit THEN NaN
        ELSE IF hasDebit THEN Num(-Abs(debit.value))
        ELSE Num(Abs(credit.value))

RECURSIVE parseCapitalOneFrom(_, _, _)
parseCapitalOneFrom(lines, i, transactions) ==
    IF ~(i < Len(lines)) THEN Success(transactions, "capital-one")
    ELSE LET fields == splitCsvLine(lines[i + 1])
             date == parseDate(Field(fields, 0))
             rawAmount == capitalOneRawAmount(fields)
         IN  IF Len(fields) < 7
             THEN Failure(ColumnsError(i + 1, "Expected at least 7 columns but found",
                                       7, Len(fields)))
             ELSE IF date = NullDate
             THEN Failure(FieldError(i + 1, "Invalid date", Field(fields, 0)))
             ELSE IF rawAmount.isNaN
             THEN Failure(FieldError(i + 1, "No debit or credit amount found.", <<>>))
             ELSE parseCapitalOneFrom(lines, i + 1,
                      Append(transactions,
                             makeTransaction(Len(transactions) + 1, date,
                                             rawAmount.value, Field(fields, 3))))

parseCapitalOne(lines) == parseCapitalOneFrom(lines, 1, <<>>)

(***************************************************************************)
(* parseCsv.                                                               *)
(***************************************************************************)
parsers(fmt, lines) ==
    CASE fmt = "wells-fargo"     -> parseWellsFargo(lines)
      [] fmt = "chase"           -> parseChase(lines)
      [] fmt = "bank-of-america" -> parseBankOfAmerica(lines)
      [] fmt = "capital-one"     -> parseCapitalOne(lines)

\* The empty-result check left out.
parseCsv_noEmptyCheck(t, fmt) ==
    LET lines == Lines(t)
        detectedFormat == IF fmt # NoFormat THEN fmt ELSE detectCsvFormat(t)
    IN  IF Len(lines) = 0 THEN Failure(FileError("The file is empty."))
        ELSE IF detectedFormat = NoFormat
        THEN Failure(FileError("Could not detect the CSV format. Please select your bank format manually."))
        ELSE parsers(detectedFormat, lines)

\* The detected format preferred to the override.
parseCsv_detectionFirst(t, fmt) ==
    LET lines == Lines(t)
        detectedFormat ==
            IF detectCsvFormat(t) # NoFormat THEN detectCsvFormat(t) ELSE fmt
        parsed == parsers(detectedFormat, lines)
    IN  IF Len(lines) = 0 THEN Failure(FileError("The file is empty."))
        ELSE IF detectedFormat = NoFormat
        THEN Failure(FileError("Could not detect the CSV format. Please select your bank format manually."))
        ELSE IF parsed.success /\ Len(parsed.transactions) = 0
        THEN Failure(FileError("No valid transactions found in the file."))
        ELSE parsed

parseCsv(t, fmt) ==
    LET lines == Lines(t)
        detectedFormat == IF fmt # NoFormat THEN fmt ELSE detectCsvFormat(t)
        parsed == parsers(detectedFormat, lines)
    IN  IF Len(lines) = 0 THEN Failure(FileError("The file is empty."))
        ELSE IF detectedFormat = NoFormat
        THEN Failure(FileError("Could not detect the CSV format. Please select your bank format manually."))
        ELSE IF parsed.success /\ Len(parsed.transactions) = 0
        THEN Failure(FileError("No valid transactions found in the file."))
        ELSE parsed

(***************************************************************************)
(* transactionToExpenseValues.                                             *)
(***************************************************************************)
Undefined == "undefined"

\* The payer left out of the participants paid for.
transactionToExpenseValues_withoutPayer(tx, paidBy, participantIds) ==
    [expenseDate |-> tx.date,
     title |-> tx.description,
     category |-> 0,
     amount |-> tx.amount,
     paidBy |-> paidBy,
     paidFor |-> LET others == SelectSeq(participantIds, LAMBDA id : id # paidBy)
                 IN  [k \in 1..Len(others) |->
                         [participant |-> others[k], shares |-> 1]],
     splitMode |-> "EVENLY",
     isReimbursement |-> FALSE,
     saveDefaultSplittingOptions |-> FALSE,
     documents |-> <<>>,
     notes |-> "undefined",
     recurrenceRule |-> "NONE",
     originalAmount |-> "undefined",
     originalCurrency |-> "",
     conversionRate |-> "undefined"]

transactionToExpenseValues(tx, paidBy, participantIds) ==
    [expenseDate |-> tx.date,
     title |-> tx.description,
     category |-> 0,
     amount |-> tx.amount,
     paidBy |-> paidBy,
     paidFor |-> [k \in 1..Len(participantIds) |->
                     [participant |-> participantIds[k], shares |-> 1]],
     splitMode |-> "EVENLY",
     isReimbursement |-> FALSE,
     saveDefaultSplittingOptions |-> FALSE,
     documents |-> <<>>,
     notes |-> Undefined,
     recurrenceRule |-> "NONE",
     originalAmount |-> Undefined,
     originalCurrency |-> "",
     conversionRate |-> Undefined]

(***************************************************************************)
(* The inputs: exported files of the four banks.  A file is up to MaxLines *)
(* rows of one bank's vocabulary (its header, rows the bank writes, rows   *)
(* with each defect the parsers report, a row of spaces), joined by one    *)
(* line ending.                                                            *)
(***************************************************************************)
Quoted(w) == <<QUOTE, w, QUOTE>>
Plain(w) == <<w>>
Blank == <<>>

\* The fields joined by commas.
RECURSIVE CsvRow(_)
CsvRow(fs) ==
    IF Len(fs) = 1 THEN fs[1] ELSE fs[1] \o <<COMMA>> \o CsvRow(Tail(fs))

ChaseHeader ==
    CsvRow(<<Plain("Transaction Date"), Plain("Post Date"), Plain("Description"),
             Plain("Category"), Plain("Type"), Plain("Amount")>>)

\* A header that holds the keywords of chase, of capital-one and of
\* bank-of-america at once.
MixedHeader ==
    CsvRow(<<Plain("Transaction Date"), Plain("Post Date"), Plain("Posted Date"),
             Plain("Description"), Plain("Category"), Plain("Type"),
             Plain("Debit"), Plain("Credit"), Plain("Running Bal.")>>)

CapitalOneHeader ==
    CsvRow(<<Plain("Transaction Date"), Plain("Posted Date"), Plain("Card No."),
             Plain("Description"), Plain("Category"), Plain("Debit"),
             Plain("Credit")>>)

BankOfAmericaHeader ==
    CsvRow(<<Plain("DATE"), Plain("DESCRIPTION"), Plain("AMOUNT"),
             Plain("RUNNING BAL.")>>)

\* Five fields with "*" third, and the bank-of-america keywords.
StarHeader ==
    CsvRow(<<Plain("Date"), Plain("Description"), Plain("*"), Plain("Amount"),
             Plain("Running Bal.")>>)

WellsFargoLines ==
    { CsvRow(<<Quoted("01/15/2024"), Quoted("-42.50"), Quoted("*"),
               <<QUOTE, QUOTE>>, Quoted("Coffee Shop")>>),
      CsvRow(<<Quoted("1/5/2024"), Quoted("100.125"), Quoted("*"),
               <<QUOTE, QUOTE>>, <<SPACE, QUOTE, "Payroll", SPACE, QUOTE>>>>),
      CsvRow(<<Quoted("12/31/2023"), Quoted("abc"), Quoted("*"),
               <<QUOTE, QUOTE>>, Quoted("Refund")>>),
      StarHeader,
      <<SPACE>> }

ChaseLines ==
    { ChaseHeader,
      MixedHeader,
      CsvRow(<<Plain("01/15/2024"), Plain("12/31/2023"), Plain("Coffee Shop"),
               Plain("Food"), Plain("Sale"), Plain("-4.375")>>),
      CsvRow(<<Plain("1/5/2024"), Plain("01/15/2024"),
               <<QUOTE, "Payment", COMMA, SPACE, "Thanks", QUOTE>>,
               Blank, Plain("Payment"), Plain("0.00")>>),
      CsvRow(<<Plain("01/15/2024"), Plain("01/15/2024"), Plain("Refund"),
               Plain("Food"), Plain("Sale"), Plain("N/A")>>) }

BankOfAmericaLines ==
    { BankOfAmericaHeader,
      CsvRow(<<Plain("01/15/2024"), Quoted("Coffee Shop"), Plain("-42.50"),
               <<QUOTE, "1", COMMA, "000.00", QUOTE>>>>),
      CsvRow(<<Plain("12/31/2023"), Plain("Refund"), Plain("0.1875"),
               Plain("957.50")>>),
      CsvRow(<<Plain("1/5/2024"), Plain("Payroll"), Plain("0.0625"),
               Plain("957.50")>>),
      CsvRow(<<Plain("2024-01-15"), Plain("Only Two")>>),
      CsvRow(<<Plain("01/15/2024"), Plain("Coffee Shop"), Plain("abc"),
               Plain("957.50")>>),
      <<SPACE>> }

CapitalOneRow(debit, credit) ==
    CsvRow(<<Plain("01/15/2024"), Plain("01/15/2024"), Plain("1234"),
             Plain("Coffee Shop"), Plain("Food"), debit, credit>>)

CapitalOneLines ==
    { CapitalOneHeader,
      CapitalOneRow(Plain("12.00"), Blank),
      CapitalOneRow(Blank, Plain("25.125")),
      CapitalOneRow(Plain("5.00"), Plain("7.00")),
      CapitalOneRow(Blank, Blank),
      CapitalOneRow(Plain("abc"), Plain("5.00")),
      CapitalOneRow(Blank, Plain("0.00")) }

FileLines ==
    {WellsFargoLines, ChaseLines, BankOfAmericaLines, CapitalOneLines}

LineEndings == {<<LF>>, <<CR, LF>>, <<CR>>}

\* The rows, each followed by the line ending except the last.
RECURSIVE JoinRows(_, _)
JoinRows(rs, sep) ==
    IF Len(rs) = 0 THEN <<>>
    ELSE IF Len(rs) = 1 THEN rs[1]
    ELSE rs[1] \o sep \o JoinRows(Tail(rs), sep)

ParticipantIds == {"p1", "ghost"}
ParticipantLists == {<<>>, <<"p2", "ghost", "p1">>}

(***************************************************************************)
(* The state machine: a file is read, its format detected, the file        *)
(* parsed, and one of the parsed transactions converted to expense values. *)
(***************************************************************************)
NoResult == Failure(NoError)

\* The variables of the other parts of the program, which a parse of a file
\* leaves alone.
outsideParser == <<splitVars, dateVars, dialogVars, batchVars>>
outsideSplit == <<parserVars, dateVars, dialogVars, batchVars>>
outsideDate == <<parserVars, splitVars, dialogVars, batchVars>>
outsideDialog == <<parserVars, splitVars, dateVars, batchVars>>
outsideBatch == <<parserVars, splitVars, dateVars, dialogVars>>

ParserIdle ==
    /\ rows = <<>>
    /\ eol = <<LF>>
    /\ text = <<>>
    /\ format = NoFormat
    /\ detected = "pending"
    /\ result = NoResult
    /\ call = "none"
    /\ expense = "none"
    /\ pc = "idle"

SplitIdle == csvLine = <<>> /\ csvFields = <<>> /\ splitPc = "idle"

DateIdle == dateField = <<>> /\ dateResult = NoResult /\ datePc = "idle"

\* The state of a freshly mounted ImportDialogContent.
Mounted(group, paidBy) ==
    [step |-> "upload",
     transactions |-> <<>>,
     parseError |-> NoError,
     detectedFormat |-> NoFormat,
     manualFormat |-> NoFormat,
     paidBy |-> paidBy,
     rawCsvText |-> <<>>,
     group |-> group]

DialogIdle ==
    /\ dialog = Mounted(FALSE, "")
    /\ open = FALSE
    /\ readers = <<>>
    /\ mutations = <<>>

\* The call at position at, with the rows the transaction returned and the
\* error thrown or the count returned.
Procedure(at, results, error, count) ==
    [pc |-> at, results |-> results, error |-> error, count |-> count]

BatchIdle ==
    /\ batchInput = [groupId |-> "", expenses |-> <<>>, participantId |-> Undefined]
    /\ database = [groups |-> {}, expenses |-> <<>>, activities |-> <<>>]
    /\ procedure = Procedure("idle", <<>>, "", 0)

Init ==
    /\ rows \in UNION {[1..n -> ls] : n \in 0..MaxLines, ls \in FileLines}
    /\ eol \in LineEndings
    /\ text = JoinRows(rows, eol)
    /\ format \in CsvFormat \cup {NoFormat}
    /\ detected = "pending"
    /\ result = NoResult
    /\ call = "none"
    /\ expense = "none"
    /\ pc = "ready"
    /\ SplitIdle
    /\ DateIdle
    /\ DialogIdle
    /\ BatchIdle

DetectCsvFormat ==
    /\ pc = "ready"
    /\ detected' = detectCsvFormat(text)
    /\ pc' = "detected"
    /\ UNCHANGED <<rows, eol, text, format, result, call, expense>>
    /\ UNCHANGED outsideParser

ParseCsv ==
    /\ pc = "detected"
    /\ result' = parseCsv(text, format)
    /\ pc' = "parsed"
    /\ UNCHANGED <<rows, eol, text, format, detected, call, expense>>
    /\ UNCHANGED outsideParser

TransactionToExpenseValues ==
    /\ pc = "parsed"
    /\ result.success
    /\ \E k \in 1..Len(result.transactions), paidBy \in ParticipantIds,
          participantIds \in ParticipantLists :
          /\ call' = [tx |-> result.transactions[k], paidBy |-> paidBy,
                      participantIds |-> participantIds]
          /\ expense' = transactionToExpenseValues(result.transactions[k],
                                                   paidBy, participantIds)
    /\ pc' = "converted"
    /\ UNCHANGED <<rows, eol, text, format, detected, result>>
    /\ UNCHANGED outsideParser

Next == DetectCsvFormat \/ ParseCsv \/ TransactionToExpenseValues

Spec == Init /\ [][Next]_vars

(***************************************************************************)
(* Vocabulary of the properties.                                           *)
(***************************************************************************)
\* parseCsv has just returned.
Parsed == pc = "parsed"

\* The non-blank lines of the file, as the split on LF and CRLF sees them: a
\* file written with CR alone is a single line.
SourceLines ==
    IF eol = <<CR>> THEN SelectSeq(<<JoinRows(rows, eol)>>, NonBlank)
    ELSE SelectSeq(rows, NonBlank)

\* The format whose parser is to run: the override, else the detected one.
Used == IF format # NoFormat THEN format ELSE detected

HeaderFormats == {"chase", "bank-of-america", "capital-one"}

\* 1-based position of the first processed line.
FirstProcessed(fmt) == IF fmt \in HeaderFormats THEN 2 ELSE 1

Processed(fmt) == FirstProcessed(fmt)..Len(SourceLines)

\* The column map of the four formats.
MinColumns(fmt) ==
    CASE fmt = "wells-fargo" -> 5
      [] fmt = "chase" -> 6
      [] fmt = "bank-of-america" -> 3
      [] fmt = "capital-one" -> 7

AmountColumns(fmt) ==
    CASE fmt = "wells-fargo" -> {1}
      [] fmt = "chase" -> {5}
      [] fmt = "bank-of-america" -> {2}
      [] fmt = "capital-one" -> {5, 6}

DescriptionColumn(fmt) ==
    CASE fmt = "wells-fargo" -> 4
      [] fmt = "chase" -> 2
      [] fmt = "bank-of-america" -> 1
      [] fmt = "capital-one" -> 3

ColumnsDefect(fmt, fields) ==
    IF fmt = "wells-fargo" THEN Len(fields) # 5 ELSE Len(fields) < MinColumns(fmt)

DateDefect(fields) == DateMatch(Field(fields, 0)) = NoMatch

\* An amount column that is present but is no decimal.
PresentUnparseable(field) == field # <<>> /\ parseFloat(field).isNaN

\* A bad amount: an amount column that is present but is no decimal, or no
\* amount at all.
AmountDefect(fmt, fields) ==
    \/ \E c \in AmountColumns(fmt) : PresentUnparseable(Field(fields, c))
    \/ \A c \in AmountColumns(fmt) : Field(fields, c) = <<>>

Defective(fmt, line) ==
    LET fields == splitCsvLine(line)
    IN  ColumnsDefect(fmt, fields) \/ DateDefect(fields) \/ AmountDefect(fmt, fields)

\* The lowest-numbered defective processed row, 0 when there is none.
FirstDefect(fmt) ==
    LET bad == {i \in Processed(fmt) : Defective(fmt, SourceLines[i])}
    IN  IF bad = {} THEN 0 ELSE CHOOSE i \in bad : \A j \in bad : i <= j

NoTransactionsError == FileError("No valid transactions found in the file.")

CouldNotDetect ==
    "Could not detect the CSV format. Please select your bank format manually."

C2_FailFastFailWhole ==
    (Parsed /\ Used # NoFormat /\ FirstDefect(Used) # 0) =>
        /\ ~result.success
        /\ result.transactions = <<>>
        /\ result.error.row = FirstDefect(Used)

\* C2 for the three single-amount formats, where it holds: the first
\* defective row is the one the failure names.
C2_SingleAmountFormats ==
    (Parsed /\ Used \in CsvFormat \ {"capital-one"} /\ FirstDefect(Used) # 0) =>
        /\ ~result.success
        /\ result.transactions = <<>>
        /\ result.error.row = FirstDefect(Used)

(***************************************************************************)
(* C3: a processed row, the first defective one of the file, whose columns *)
(* and date are fine and one of whose amount columns is present but is no  *)
(* decimal, makes the call fail with "Invalid amount", the row and the bad *)
(* text.                                                                   *)
(***************************************************************************)
C3_UnparseableAmountFails ==
    (Parsed /\ Used # NoFormat) =>
        \A i \in Processed(Used) :
            LET fields == splitCsvLine(SourceLines[i])
            IN  (/\ FirstDefect(Used) = i
                 /\ ~ColumnsDefect(Used, fields)
                 /\ ~DateDefect(fields)) =>
                    \A c \in AmountColumns(Used) :
                        PresentUnparseable(Field(fields, c)) =>
                            /\ ~result.success
                            /\ result.error.row = i
                            /\ result.error.message = "Invalid amount"
                            /\ result.error.text = Field(fields, c)

\* C3 for the three single-amount formats, where it holds.
C3_SingleAmountFormats ==
    Used \in CsvFormat \ {"capital-one"} => C3_UnparseableAmountFails

(***************************************************************************)
(* C4.  The rows of a capital-one success, transaction k being built from  *)
(* processed row k.                                                        *)
(***************************************************************************)
CapitalOneSuccess == Parsed /\ result.success /\ Used = "capital-one"

DebitOf(k) == parseFloat(Field(splitCsvLine(SourceLines[k + 1]), 5))
CreditOf(k) == parseFloat(Field(splitCsvLine(SourceLines[k + 1]), 6))

\* C4 as claimed: a debit value gives a negative amount and isCredit false,
\* a credit value alone gives a positive amount and isCredit true.
C4_DebitNegativeCreditPositive ==
    CapitalOneSuccess =>
        \A k \in 1..Len(result.transactions) :
            LET tx == result.transactions[k]
            IN  /\ ~DebitOf(k).isNaN => (tx.rawAmount < 0 /\ ~tx.isCredit)
                /\ (DebitOf(k).isNaN /\ ~CreditOf(k).isNaN) =>
                      (tx.rawAmount > 0 /\ tx.isCredit)

\* C4 amended: a debit value gives the amount -|debit| (negative or zero) and
\* isCredit false, debit taking precedence; a credit value alone gives the
\* amount |credit| (positive or zero) and isCredit exactly when it is not
\* zero; a row with neither, the first defective row, fails naming the row.
C4_DebitNonPositiveCreditNonNegative ==
    /\ CapitalOneSuccess =>
          \A k \in 1..Len(result.transactions) :
              LET tx == result.transactions[k]
              IN  /\ ~DebitOf(k).isNaN =>
                        /\ tx.rawAmount = -Abs(DebitOf(k).value)
                        /\ tx.rawAmount <= 0
                        /\ ~tx.isCredit
                  /\ (DebitOf(k).isNaN /\ ~CreditOf(k).isNaN) =>
                        /\ tx.rawAmount = Abs(CreditOf(k).value)
                        /\ tx.rawAmount >= 0
                        /\ tx.isCredit = (CreditOf(k).value # 0)
                  /\ ~(DebitOf(k).isNaN /\ CreditOf(k).isNaN)
    /\ (Parsed /\ Used = "capital-one") =>
          \A i \in Processed(Used) :
              LET fields == splitCsvLine(SourceLines[i])
              IN  (/\ \A j \in Processed(Used) : j < i =>
                          ~Defective(Used, SourceLines[j])
                   /\ ~ColumnsDefect(Used, fields)
                   /\ ~DateDefect(fields)
                   /\ parseFloat(Field(fields, 5)).isNaN
                   /\ parseFloat(Field(fields, 6)).isNaN) =>
                      /\ ~result.success
                      /\ result.error.row = i
                      /\ result.error.message = "No debit or credit amount found."

\* A capital-one success of two rows: one with both columns, one with a
\* credit of 0.00 alone.
C4_Witness ==
    /\ CapitalOneSuccess
    /\ format = NoFormat
    /\ Len(result.transactions) = 2
    /\ \E k \in 1..2 : ~DebitOf(k).isNaN /\ ~CreditOf(k).isNaN
    /\ \E k \in 1..2 : DebitOf(k).isNaN /\ CreditOf(k) = Num(0)

(***************************************************************************)
(* C5 as claimed: the rows joined by CR, by LF or by CRLF give the same    *)
(* detected format and the same outcome as the rows joined by LF.          *)
(***************************************************************************)
C5_AnyLineEnding ==
    Parsed =>
        /\ detected = detectCsvFormat(JoinRows(rows, <<LF>>))
        /\ result = parseCsv(JoinRows(rows, <<LF>>), format)

(***************************************************************************)
(* C5 amended: the rows joined by CRLF give the same detected format and   *)
(* the same outcome as the rows joined by LF.                              *)
(***************************************************************************)
C5_LfOrCrlf ==
    (Parsed /\ eol = <<CR, LF>>) =>
        /\ detected = detectCsvFormat(JoinRows(rows, <<LF>>))
        /\ result = parseCsv(JoinRows(rows, <<LF>>), format)

\* A CRLF file of three rows parsed into two transactions.
C5_Witness ==
    /\ pc = "parsed"
    /\ eol = <<CR, LF>>
    /\ Len(rows) = 3
    /\ result.success
    /\ Len(result.transactions) = 2

(***************************************************************************)
(* C6: under a format override, on a text with a non-blank line, the       *)
(* override's parser is the one that runs: the outcome is that parser's    *)
(* (an empty success turned into the no-transactions failure), never the   *)
(* could-not-detect failure, and a success names the override.             *)
(***************************************************************************)
C6_OverrideWins ==
    (Parsed /\ format # NoFormat /\ Len(SourceLines) >= 1) =>
        LET ran == parsers(format, SourceLines)
        IN  /\ result.error.message # CouldNotDetect
            /\ result.success => result.detectedFormat = format
            /\ result = IF ran.success /\ ran.transactions = <<>>
                        THEN Failure(NoTransactionsError)
                        ELSE ran

\* A file detected as capital-one parsed with success under the chase
\* override.
C6_Witness ==
    /\ pc = "parsed"
    /\ format = "chase"
    /\ detected = "capital-one"
    /\ result.success
    /\ result.detectedFormat = "chase"

KeywordsOf(line) ==
    UNION {KeywordsIn(toLowerCase(line[i])) : i \in 1..Len(line)}

FirstMatch(line) ==
    LET kw == KeywordsOf(line)
        fields == splitCsvLine(line)
    IN  IF {"transaction date", "post date", "category", "type"} \subseteq kw
        THEN "chase"
        ELSE IF {"transaction date", "posted date", "debit", "credit"} \subseteq kw
        THEN "capital-one"
        ELSE IF {"date", "description", "running bal"} \subseteq kw
        THEN "bank-of-america"
        ELSE IF Len(fields) = 5 /\ fields[3] = <<"*">>
        THEN "wells-fargo"
        ELSE NoFormat

C8_FirstLineFirstMatch ==
    pc = "detected" =>
        detected = IF SourceLines = <<>> THEN NoFormat
                   ELSE FirstMatch(SourceLines[1])

\* A first line holding the keywords of three formats, followed by a plain
\* chase header, detected as chase.
C8_Witness ==
    /\ pc = "detected"
    /\ Len(SourceLines) = 2
    /\ SourceLines[1] = MixedHeader
    /\ SourceLines[2] = ChaseHeader
    /\ detected = "chase"

(***************************************************************************)
(* C9: a success holds one transaction per processed row, in row order:    *)
(* as many as the non-blank lines, less the first line for the             *)
(* header-bearing formats, the k-th built from the k-th processed row.     *)
(***************************************************************************)
C9_OneTransactionPerRow ==
    (Parsed /\ result.success) =>
        LET skipped == FirstProcessed(Used) - 1
        IN  /\ Len(result.transactions) = Len(SourceLines) - skipped
            /\ \A k \in 1..Len(result.transactions) :
                  LET tx == result.transactions[k]
                      fields == splitCsvLine(SourceLines[k + skipped])
                  IN  /\ tx.description = Field(fields, DescriptionColumn(Used))
                      /\ tx.date = parseDate(Field(fields, 0))
                      /\ Used # "capital-one" =>
                            \A c \in AmountColumns(Used) :
                                tx.rawAmount = parseFloat(Field(fields, c)).value

\* Three bank-of-america rows without a header under the bank-of-america
\* override: the first line is skipped, the other two give the transactions.
C9_Witness ==
    /\ pc = "parsed"
    /\ format = "bank-of-america"
    /\ detected = NoFormat
    /\ Len(SourceLines) = 3
    /\ result.success
    /\ Len(result.transactions) = 2
    /\ result.transactions[1].description # result.transactions[2].description

(***************************************************************************)
(* C10: transactionToExpenseValues carries the date, the description (as   *)
(* title) and the amount through, fixes category 0, EVENLY, no             *)
(* reimbursement, no documents, no notes, recurrence NONE, and gives one   *)
(* {participant, shares: 1} per supplied participant, in the supplied      *)
(* order, whatever the identifiers.                                        *)
(***************************************************************************)
C10_ExpenseValues ==
    pc = "converted" =>
        /\ expense.expenseDate = call.tx.date
        /\ expense.title = call.tx.description
        /\ expense.amount = call.tx.amount
        /\ expense.paidBy = call.paidBy
        /\ expense.category = 0
        /\ expense.splitMode = "EVENLY"
        /\ expense.isReimbursement = FALSE
        /\ expense.documents = <<>>
        /\ expense.notes = Undefined
        /\ expense.recurrenceRule = "NONE"
        /\ Len(expense.paidFor) = Len(call.participantIds)
        /\ \A k \in 1..Len(call.participantIds) :
              expense.paidFor[k] =
                  [participant |-> call.participantIds[k], shares |-> 1]

\* A conversion with a payer and a participant outside the group's, the
\* payer among the participants.
C10_Witness ==
    /\ pc = "converted"
    /\ call.paidBy = "ghost"
    /\ call.participantIds = <<"p2", "ghost", "p1">>
    /\ Len(expense.paidFor) = 3

(***************************************************************************)
(* One call of splitCsvLine, on every line of at most MaxChars characters   *)
(* over a comma, a quote, a space and an ordinary character.                *)
(***************************************************************************)
MaxChars == 5

Characters == {COMMA, QUOTE, SPACE, "a"}

CsvLines == UNION {[1..n -> Characters] : n \in 0..MaxChars}

InitSplit ==
    /\ csvLine \in CsvLines
    /\ csvFields = <<>>
    /\ splitPc = "ready"
    /\ ParserIdle
    /\ DateIdle
    /\ DialogIdle
    /\ BatchIdle

SplitCsvLine ==
    /\ splitPc = "ready"
    /\ csvFields' = splitCsvLine(csvLine)
    /\ splitPc' = "split"
    /\ UNCHANGED csvLine
    /\ UNCHANGED outsideSplit

NextSplit == SplitCsvLine

SpecSplit == InitSplit /\ [][NextSplit]_vars

(***************************************************************************)
(* The reading of a line that the description of the splitter gives: each  *)
(* character is the delimiter of a quoted span, a literal quote (the       *)
(* second quote of a pair inside a span), a separator (a comma outside     *)
(* every span) or content.                                                 *)
(***************************************************************************)
\* Where the reader stands after the first n characters: "out" of every
\* span, "in" a span, or "pair" (in a span, on the first quote of a pair).
RECURSIVE After(_, _)
After(line, n) ==
    IF n = 0 THEN "out"
    ELSE LET before == After(line, n - 1)
         IN  IF before = "pair" THEN "in"
             ELSE IF line[n] # QUOTE THEN before
             ELSE IF before = "out" THEN "in"
             ELSE IF n < Len(line) /\ line[n + 1] = QUOTE THEN "pair"
             ELSE "out"

Tag(line, n) ==
    LET before == After(line, n - 1)
    IN  IF before = "pair" THEN "literal"
        ELSE IF line[n] = QUOTE THEN "delimiter"
        ELSE IF line[n] = COMMA /\ before = "out" THEN "separator"
        ELSE "content"

\* The positions of the commas outside quoted spans.
Separators(line) == {n \in 1..Len(line) : Tag(line, n) = "separator"}

\* The position of the k-th separator; 0 before the line, Len + 1 after it.
Boundary(line, k) ==
    IF k = 0 THEN 0
    ELSE IF k > Cardinality(Separators(line)) THEN Len(line) + 1
    ELSE CHOOSE n \in Separators(line) :
             Cardinality({m \in Separators(line) : m < n}) = k - 1

\* The content and the literal quotes of positions n .. hi - 1.
RECURSIVE Kept(_, _, _)
Kept(line, n, hi) ==
    IF n >= hi THEN <<>>
    ELSE (IF Tag(line, n) \in {"content", "literal"} THEN <<line[n]>> ELSE <<>>)
         \o Kept(line, n + 1, hi)

ExpectedFields(line) ==
    [k \in 1..(Cardinality(Separators(line)) + 1) |->
        Trim(Kept(line, Boundary(line, k - 1) + 1, Boundary(line, k)))]

\* How many times character c occurs in a sequence of characters.
Occurrences(chars, c) == Cardinality({n \in 1..Len(chars) : chars[n] = c})

RECURSIVE Sum(_, _)
Sum(counts, n) == IF n = 0 THEN 0 ELSE counts[n] + Sum(counts, n - 1)

\* How many times c occurs in all the fields together.
OccurrencesInFields(fields, c) ==
    Sum([k \in 1..Len(fields) |-> Occurrences(fields[k], c)], Len(fields))

\* C11: splitCsvLine returns, for every line, exactly 1 + (number of commas
\* outside quoted spans) fields, each trimmed and holding the content of its
\* stretch of the line: the commas inside quoted spans stay in the fields,
\* each pair of quotes inside a span yields one literal quote, after an
\* unterminated quote there is no further separator (the rest of the line is
\* in the last field), and the empty line yields exactly one empty field.
C11_SplitCsvLine ==
    splitPc = "split" =>
        /\ Len(csvFields) = 1 + Cardinality(Separators(csvLine))
        /\ csvFields = ExpectedFields(csvLine)
        /\ \A k \in 1..Len(csvFields) : csvFields[k] = Trim(csvFields[k])
        /\ OccurrencesInFields(csvFields, COMMA)
               = Occurrences(csvLine, COMMA) - Cardinality(Separators(csvLine))
        /\ OccurrencesInFields(csvFields, QUOTE)
               = Cardinality({n \in 1..Len(csvLine) : Tag(csvLine, n) = "literal"})
        /\ After(csvLine, Len(csvLine)) = "in" =>
               \E first \in 1..Len(csvLine) :
                   /\ After(csvLine, first - 1) = "out"
                   /\ \A n \in first..Len(csvLine) : After(csvLine, n) # "out"
                   /\ \A n \in Separators(csvLine) : n < first
                   /\ csvFields[Len(csvFields)]
                          = Trim(Kept(csvLine,
                                      Boundary(csvLine, Len(csvFields) - 1) + 1,
                                      Len(csvLine) + 1))
        /\ csvLine = <<>> => csvFields = << <<>> >>

\* A quoted span with a comma and a pair of quotes in it, then a separator
\* and a quote that is never closed.
C11_Witness ==
    /\ splitPc = "split"
    /\ csvLine = <<QUOTE, COMMA, QUOTE, QUOTE, QUOTE>>
    /\ csvFields = << <<COMMA, QUOTE>> >>

C11_WitnessUnterminated ==
    /\ splitPc = "split"
    /\ csvLine = <<"a", COMMA, QUOTE, "a", COMMA>>
    /\ csvFields = << <<"a">>, <<"a", COMMA>> >>


(***************************************************************************)
(* One chase statement of a header and one row, the row's date field       *)
(* written with every month number up to MaxMonth and day number up to     *)
(* MaxDay, in one or two digits.                                           *)
(***************************************************************************)
MaxMonth == 13
MaxDay == 32

\* The years written in the date fields.
Years == {99, 1900, 2023, 2024}

\* n written in w digits.
RECURSIVE Numeral(_, _)
Numeral(n, w) ==
    IF w = 0 THEN <<>> ELSE Numeral(n \div 10, w - 1) \o <<Digits[(n % 10) + 1]>>

\* n written in one or in two digits.
Numerals(n) == {Numeral(n, w) : w \in (IF n < 10 THEN {1, 2} ELSE {2})}

Written(ms, ds, ys) == ms \o <<SLASH>> \o ds \o <<SLASH>> \o ys

\* Fields that do not have the M/D/YYYY layout.
OtherLayouts ==
    { <<>>,
      Numeral(1, 2) \o <<SLASH>> \o Numeral(15, 2),
      Written(Numeral(1, 2), Numeral(15, 2), Numeral(24, 2)),
      Written(Numeral(1, 3), Numeral(15, 2), Numeral(2024, 4)),
      Numeral(2024, 4) \o <<"-">> \o Numeral(1, 2) \o <<"-">> \o Numeral(15, 2) }

DateFields ==
    { Written(ms, ds, Numeral(y, 4)) :
        ms \in UNION {Numerals(m) : m \in 0..MaxMonth},
        ds \in UNION {Numerals(d) : d \in 0..MaxDay},
        y \in Years }
    \cup OtherLayouts

\* The row of the statement: the date field, then the other five columns.
DatedRow(field) ==
    field \o <<COMMA>>
    \o CsvRow(<<Plain("01/15/2024"), Plain("Coffee Shop"), Plain("Food"),
                Plain("Sale"), Plain("-4.375")>>)

InitDate ==
    /\ dateField \in DateFields
    /\ dateResult = NoResult
    /\ datePc = "ready"
    /\ ParserIdle
    /\ SplitIdle
    /\ DialogIdle
    /\ BatchIdle

ParseChase ==
    /\ datePc = "ready"
    /\ dateResult' = parseChase(<<ChaseHeader, DatedRow(dateField)>>)
    /\ datePc' = "parsed"
    /\ UNCHANGED dateField
    /\ UNCHANGED outsideDate

NextDate == ParseChase

SpecDate == InitDate /\ [][NextDate]_vars

\* The calendar has a day d in month m (1 = January) of year y.
RealDay(m, d, y) == m \in 1..12 /\ d \in 1..DaysInMonth(y, m - 1)

\* C12: the date of an accepted row has exactly the year, month and day
\* written in the row's date field, and a date field of the M/D/YYYY layout
\* that names no real calendar day is rejected with the invalid-date
\* diagnostic of its row.
C12_DateAsWritten ==
    datePc = "parsed" =>
        LET match == DateMatch(dateField)
        IN  /\ dateResult.success =>
                 /\ match # NoMatch
                 /\ Len(dateResult.transactions) = 1
                 /\ dateResult.transactions[1].date
                        = [year |-> match[3], month |-> match[1], day |-> match[2]]
            /\ (match # NoMatch /\ ~RealDay(match[1], match[2], match[3])) =>
                 /\ ~dateResult.success
                 /\ dateResult.error = FieldError(2, "Invalid date", dateField)

\* What does hold: a field of another layout is rejected with the diagnostic,
\* and a real day of a year from 100 on is kept as written.
C12_RealDaysKept ==
    datePc = "parsed" =>
        LET match == DateMatch(dateField)
        IN  /\ match = NoMatch =>
                 /\ ~dateResult.success
                 /\ dateResult.error = FieldError(2, "Invalid date", dateField)
            /\ (match # NoMatch /\ RealDay(match[1], match[2], match[3])
                 /\ match[3] >= 100) =>
                 /\ dateResult.success
                 /\ dateResult.transactions[1].date
                        = [year |-> match[3], month |-> match[1], day |-> match[2]]

\* 02/30/2024 is accepted as March 1st 2024.
C12_RolledOver ==
    /\ datePc = "parsed"
    /\ dateField = Written(Numeral(2, 2), Numeral(30, 2), Numeral(2024, 4))
    /\ dateResult.success
    /\ dateResult.transactions[1].date = [year |-> 2024, month |-> 3, day |-> 1]


(***************************************************************************)
(* The import dialog.  A file is chosen, read by a FileReader whose onload *)
(* runs later, parsed, previewed, and the selected transactions are sent   *)
(* as one createBatch mutation that settles later.                         *)
(***************************************************************************)
MaxReaders == 2
MaxMutations == 2

ChaseStatement ==
    JoinRows(<<ChaseHeader,
               CsvRow(<<Plain("01/15/2024"), Plain("12/31/2023"),
                        Plain("Coffee Shop"), Plain("Food"), Plain("Sale"),
                        Plain("-4.375")>>)>>, <<LF>>)

\* The files the user may choose: a statement, and an empty file.
Files == {ChaseStatement, <<>>}

\* The choices of the format select: "auto" (no manual format) or a format,
\* here one whose parser rejects the statement.
FormatChoices == {NoFormat, "wells-fargo"}

\* group.participants of the current group, and the active user.
GroupParticipants == <<"p1", "p2">>

\* The sequence without its k-th element.
Without(seq, k) == SubSeq(seq, 1, k - 1) \o SubSeq(seq, k + 1, Len(seq))

\* attemptParse(text, format) on the state d.
attemptParse(d, txt, fmt) ==
    LET parsed == parseCsv(txt, fmt)
    IN  IF parsed.success
        THEN [d EXCEPT !.transactions = parsed.transactions,
                       !.detectedFormat = parsed.detectedFormat,
                       !.parseError = NoError,
                       !.step = "preview"]
        ELSE [d EXCEPT !.parseError = parsed.error,
                       !.transactions = <<>>,
                       !.detectedFormat = NoFormat]

selectedTxs == SelectSeq(dialog.transactions, LAMBDA tx : tx.selected)

InitDialog ==
    /\ \E paidBy \in {"", GroupParticipants[1]} : dialog = Mounted(TRUE, paidBy)
    /\ open = TRUE
    /\ readers = <<>>
    /\ mutations = <<>>
    /\ ParserIdle
    /\ SplitIdle
    /\ DateIdle
    /\ BatchIdle

\* The file input is rendered in the upload step only.
HandleFileSelect ==
    /\ open
    /\ dialog.step = "upload"
    /\ Len(readers) < MaxReaders
    /\ \E file \in Files :
           readers' = Append(readers, [text |-> file, format |-> dialog.manualFormat])
    /\ UNCHANGED <<dialog, open, mutations>>
    /\ UNCHANGED outsideDialog

\* reader.onload of one of the pending readers; after the dialog has closed
\* the component is unmounted and its state setters do nothing.
ReaderOnload ==
    /\ \E k \in 1..Len(readers) :
           /\ readers' = Without(readers, k)
           /\ dialog' = IF open
                         THEN attemptParse([dialog EXCEPT !.rawCsvText = readers[k].text],
                                           readers[k].text, readers[k].format)
                         ELSE dialog
    /\ UNCHANGED <<open, mutations>>
    /\ UNCHANGED outsideDialog

\* The format select is rendered in the upload step only.
HandleFormatChange ==
    /\ open
    /\ dialog.step = "upload"
    /\ \E f \in FormatChoices :
           dialog' = IF dialog.rawCsvText # <<>>
                     THEN attemptParse([dialog EXCEPT !.manualFormat = f],
                                       dialog.rawCsvText, f)
                     ELSE [dialog EXCEPT !.manualFormat = f]
    /\ UNCHANGED <<open, readers, mutations>>
    /\ UNCHANGED outsideDialog

ToggleTransaction ==
    /\ open
    /\ dialog.step = "preview"
    /\ \E k \in 1..Len(dialog.transactions) :
           dialog' = [dialog EXCEPT !.transactions[k].selected = ~@]
    /\ UNCHANGED <<open, readers, mutations>>
    /\ UNCHANGED outsideDialog

SelectAll ==
    /\ open
    /\ dialog.step = "preview"
    /\ LET prev == dialog.transactions
       IN  dialog' = [dialog EXCEPT !.transactions =
               [k \in 1..Len(prev) |-> [prev[k] EXCEPT !.selected = TRUE]]]
    /\ UNCHANGED <<open, readers, mutations>>
    /\ UNCHANGED outsideDialog

DeselectAll ==
    /\ open
    /\ dialog.step = "preview"
    /\ LET prev == dialog.transactions
       IN  dialog' = [dialog EXCEPT !.transactions =
               [k \in 1..Len(prev) |-> [prev[k] EXCEPT !.selected = FALSE]]]
    /\ UNCHANGED <<open, readers, mutations>>
    /\ UNCHANGED outsideDialog

ChargesOnly ==
    /\ open
    /\ dialog.step = "preview"
    /\ LET prev == dialog.transactions
       IN  dialog' = [dialog EXCEPT !.transactions =
               [k \in 1..Len(prev) |-> [prev[k] EXCEPT !.selected = ~prev[k].isCredit]]]
    /\ UNCHANGED <<open, readers, mutations>>
    /\ UNCHANGED outsideDialog

SetPaidBy ==
    /\ open
    /\ dialog.step = "preview"
    /\ \E p \in {GroupParticipants[k] : k \in 1..Len(GroupParticipants)} :
           dialog' = [dialog EXCEPT !.paidBy = p]
    /\ UNCHANGED <<open, readers, mutations>>
    /\ UNCHANGED outsideDialog

\* The "change file" button of the preview.
ChangeFile ==
    /\ open
    /\ dialog.step = "preview"
    /\ dialog' = [dialog EXCEPT !.step = "upload",
                                 !.transactions = <<>>,
                                 !.parseError = NoError]
    /\ UNCHANGED <<open, readers, mutations>>
    /\ UNCHANGED outsideDialog

\* The import button is rendered in the preview step, enabled when a
\* transaction is selected and a payer chosen.
HandleImport ==
    /\ open
    /\ dialog.step = "preview"
    /\ dialog.group /\ Len(selectedTxs) # 0 /\ dialog.paidBy # ""
    /\ Len(mutations) < MaxMutations
    /\ dialog' = [dialog EXCEPT !.step = "importing"]
    /\ mutations' = Append(mutations,
           [expenses |-> [k \in 1..Len(selectedTxs) |->
               transactionToExpenseValues(selectedTxs[k], dialog.paidBy,
                                          GroupParticipants)]])
    /\ UNCHANGED <<open, readers>>
    /\ UNCHANGED outsideDialog

\* onSuccess of one of the mutations in flight: onDone closes the dialog.
MutationSuccess ==
    /\ \E k \in 1..Len(mutations) : mutations' = Without(mutations, k)
    /\ open' = FALSE
    /\ UNCHANGED <<dialog, readers>>
    /\ UNCHANGED outsideDialog

\* onError of one of the mutations in flight.
MutationError ==
    /\ \E k \in 1..Len(mutations) : mutations' = Without(mutations, k)
    /\ dialog' = IF open THEN [dialog EXCEPT !.step = "preview"] ELSE dialog
    /\ UNCHANGED <<open, readers>>
    /\ UNCHANGED outsideDialog

NextDialog ==
    \/ HandleFileSelect
    \/ ReaderOnload
    \/ HandleFormatChange
    \/ ToggleTransaction
    \/ SelectAll
    \/ DeselectAll
    \/ ChargesOnly
    \/ SetPaidBy
    \/ ChangeFile
    \/ HandleImport
    \/ MutationSuccess
    \/ MutationError

SpecDialog == InitDialog /\ [][NextDialog]_vars

\* C13: at most one createBatch mutation of the dialog is in flight at a
\* time.
C13_OneMutationInFlight == Len(mutations) <= 1

\* C13, the means: while a mutation is in flight the open dialog stays in
\* the importing step.
C13_ImportingWhileInFlight ==
    (open /\ mutations # <<>>) => dialog.step = "importing"

\* Two batches of the same file in flight at once.
C13_TwoBatches ==
    /\ Len(mutations) = 2
    /\ mutations[1] = mutations[2]
    /\ dialog.rawCsvText = ChaseStatement
    /\ dialog.step = "importing"


(***************************************************************************)
(* The createBatch procedure: the input is validated, the group fetched,   *)
(* the participants checked, the expenses inserted in one transaction and  *)
(* one activity logged.  Each await is a step of its own; the transaction  *)
(* and the activity log may fail.                                          *)
(***************************************************************************)
MaxExpenses == 2

\* z.array(expenseFormSchema).min(1).max(500)
MinBatchSize == 1
MaxBatchSize == 500

\* The group stored, and the id of a group that is not.
StoredGroup == [id |-> "g1", participants |-> {"p1", "p2"}]
GroupIds == {StoredGroup.id, "unknown"}

\* An expense stored before the call.
EarlierExpense ==
    [id |-> 0, groupId |-> StoredGroup.id, title |-> <<"Rent">>, amount |-> 90000,
     paidById |-> "p2", paidFor |-> <<[participantId |-> "p1", shares |-> 1]>>]

\* The expenses of a batch: one transaction of a statement, paid by a
\* participant or by a stranger, for participants or for a stranger too.
BatchExpenses ==
    { transactionToExpenseValues(
          makeTransaction(1, [year |-> 2024, month |-> 1, day |-> 15], -43750,
                          <<"Coffee Shop">>), paidBy, participantIds) :
        paidBy \in StoredGroup.participants \cup {"ghost"},
        participantIds \in {<<"p1", "p2">>, <<"p2", "ghost", "p1">>} }

\* The row prisma.expense.create writes for the k-th expense of the batch.
ExpenseRow(groupId, expenseFormValues, expenseId) ==
    [id |-> expenseId,
     groupId |-> groupId,
     title |-> expenseFormValues.title,
     amount |-> expenseFormValues.amount,
     paidById |-> expenseFormValues.paidBy,
     paidFor |-> [k \in 1..Len(expenseFormValues.paidFor) |->
                    [participantId |-> expenseFormValues.paidFor[k].participant,
                     shares |-> expenseFormValues.paidFor[k].shares]]]

\* The first invalid participant ID of the batch, in the order of the two
\* loops, or "" when every ID is one of the group's.
RECURSIVE FirstInvalid(_, _)
FirstInvalid(expenses, validParticipantIds) ==
    IF expenses = <<>> THEN ""
    ELSE LET first == Head(expenses)
             strangers == {k \in 1..Len(first.paidFor) :
                              first.paidFor[k].participant \notin validParticipantIds}
         IN  IF first.paidBy \notin validParticipantIds THEN first.paidBy
             ELSE IF strangers # {}
             THEN first.paidFor[CHOOSE k \in strangers :
                                    \A j \in strangers : k <= j].participant
             ELSE FirstInvalid(Tail(expenses), validParticipantIds)

InitBatch ==
    /\ \E groupId \in GroupIds, participantId \in {Undefined, "p1"},
          expenses \in UNION {[1..n -> BatchExpenses] : n \in 0..MaxExpenses} :
          batchInput = [groupId |-> groupId, expenses |-> expenses,
                        participantId |-> participantId]
    /\ \E earlier \in {<<>>, <<EarlierExpense>>} :
          database = [groups |-> {StoredGroup}, expenses |-> earlier,
                      activities |-> <<>>]
    /\ procedure = Procedure("input", <<>>, "", 0)
    /\ ParserIdle
    /\ SplitIdle
    /\ DateIdle
    /\ DialogIdle

\* .input(z.object({...})): an input outside the schema ends the call
\* before the mutation runs.
ValidateInput ==
    /\ procedure.pc = "input"
    /\ procedure' =
          IF /\ batchInput.groupId # ""
             /\ Len(batchInput.expenses) >= MinBatchSize
             /\ Len(batchInput.expenses) <= MaxBatchSize
          THEN [procedure EXCEPT !.pc = "getGroup"]
          ELSE [procedure EXCEPT !.pc = "error", !.error = "Invalid input"]
    /\ UNCHANGED <<batchInput, database>>
    /\ UNCHANGED outsideBatch

\* await getGroup(groupId), the check of the group and of every participant
\* ID, up to the call of prisma.$transaction.
GetGroup ==
    /\ procedure.pc = "getGroup"
    /\ LET found == {g \in database.groups : g.id = batchInput.groupId}
       IN  IF found = {}
           THEN procedure' = [procedure EXCEPT !.pc = "error",
                                               !.error = "Invalid group ID"]
           ELSE LET group == CHOOSE g \in found : TRUE
                    invalid == FirstInvalid(batchInput.expenses, group.participants)
                IN  IF invalid # ""
                    THEN procedure' = [procedure EXCEPT !.pc = "error",
                                          !.error = "Invalid participant ID"]
                    ELSE procedure' = [procedure EXCEPT !.pc = "transaction"]
    /\ UNCHANGED <<batchInput, database>>
    /\ UNCHANGED outsideBatch

\* await prisma.$transaction([...]) commits: every expense of the batch is
\* stored.
Transaction ==
    /\ procedure.pc = "transaction"
    /\ LET results == [k \in 1..Len(batchInput.expenses) |->
                          ExpenseRow(batchInput.groupId, batchInput.expenses[k],
                                     Len(database.expenses) + k)]
       IN  /\ database' = [database EXCEPT !.expenses = @ \o results]
           /\ procedure' = [procedure EXCEPT !.pc = "logActivity",
                                              !.results = results]
    /\ UNCHANGED batchInput
    /\ UNCHANGED outsideBatch

\* await prisma.$transaction([...]) rejects: an insert failed and none is
\* stored.
TransactionFails ==
    /\ procedure.pc = "transaction"
    /\ procedure' = [procedure EXCEPT !.pc = "error", !.error = "Insert failed"]
    /\ UNCHANGED <<batchInput, database>>
    /\ UNCHANGED outsideBatch

\* await logActivity(...) resolves, and the procedure returns the count.
LogActivity ==
    /\ procedure.pc = "logActivity"
    /\ database' = [database EXCEPT !.activities =
           Append(@, [groupId |-> batchInput.groupId,
                      activityType |-> "CREATE_EXPENSE",
                      participantId |-> batchInput.participantId,
                      data |-> Len(procedure.results)])]
    /\ procedure' = [procedure EXCEPT !.pc = "returned",
                                       !.count = Len(procedure.results)]
    /\ UNCHANGED batchInput
    /\ UNCHANGED outsideBatch

\* await logActivity(...) rejects: the procedure ends with that error.
LogActivityFails ==
    /\ procedure.pc = "logActivity"
    /\ procedure' = [procedure EXCEPT !.pc = "error",
                                       !.error = "Activity log failed"]
    /\ UNCHANGED <<batchInput, database>>
    /\ UNCHANGED outsideBatch

NextBatch ==
    \/ ValidateInput
    \/ GetGroup
    \/ Transaction
    \/ TransactionFails
    \/ LogActivity
    \/ LogActivityFails

SpecBatch == InitBatch /\ [][NextBatch]_vars

\* The expenses stored by the call: those that were not there before it.
StoredByCall == SelectSeq(database.expenses, LAMBDA row : row # EarlierExpense)

\* C14: when the procedure ends with an error, no expense of the batch is
\* stored; when it returns, every expense of the batch is stored and exactly
\* one activity was logged for it.
C14_AllOrNothing ==
    /\ procedure.pc = "error" => StoredByCall = <<>>
    /\ procedure.pc = "returned" =>
          /\ Len(StoredByCall) = Len(batchInput.expenses)
          /\ \A k \in 1..Len(StoredByCall) :
                StoredByCall[k] = ExpenseRow(batchInput.groupId,
                                             batchInput.expenses[k],
                                             StoredByCall[k].id)
          /\ Len(database.activities) = 1
          /\ procedure.count = Len(batchInput.expenses)

\* What does hold: a call that returns has stored the whole batch and logged
\* one activity, and a call that ends with any error but a failed activity
\* log has stored nothing.
C14_AllOrNothingBeforeTheLog ==
    /\ (procedure.pc = "error" /\ procedure.error # "Activity log failed") =>
          (StoredByCall = <<>> /\ database.activities = <<>>)
    /\ procedure.pc = "returned" =>
          /\ Len(StoredByCall) = Len(batchInput.expenses)
          /\ Len(database.activities) = 1
          /\ procedure.count = Len(batchInput.expenses)

\* The call has ended with an error and its two expenses are stored.
C14_StoredAndFailed ==
    /\ procedure.pc = "error"
    /\ procedure.error = "Activity log failed"
    /\ Len(StoredByCall) = 2
    /\ database.activities = <<>>


====
